---------------------------- MODULE Spec2Model ----------------------------
(***************************************************************************)
(* dnsproxy (src/main.go): a runner that starts a UDP forwarder and keeps  *)
(* its destination set reconciled from two sources, the admin HTTP push    *)
(* (serveHTTP -> updateDstCh -> the loop of Run) and the periodic DNS      *)
(* health check (healthCheck).                                             *)
(*                                                                         *)
(* Goroutines of the model:                                                *)
(*   Run          the goroutine that called runner.Run                     *)
(*   healthCheck  the goroutine started at main.go:149                     *)
(*   handlers     one goroutine per admin HTTP request                     *)
(*   relay        forwarder.Start, started at main.go:142                  *)
(* The forwarder itself (github.com/lrascao/udp-forward) is not part of    *)
(* main.go; its registry and fan-out are modelled from spec.md, sections   *)
(* 4.1 and 4.3.                                                            *)
(***************************************************************************)
EXTENDS Integers, Sequences, FiniteSets, TLC

\* ------------------------------------------------------------- bounds
\* longest static list of the configuration
MaxStatic == 2
\* admin HTTP requests served in one behaviour
MaxReq == 2
\* ticks of the health-check ticker in one behaviour
MaxTicks == 2
\* client datagrams received in one behaviour
MaxPackets == 2

\* ------------------------------------------------------------- values
\* type destination, main.go:21-24
Dest(n, a) == [name |-> n, addr |-> a]

DA == Dest("a", "10.0.0.1:100")
DB == Dest("b", "10.0.0.2:100")
DC == Dest("c", "10.0.0.3:100")
\* malformed entries: an empty name, an empty address
NoName == Dest("", "10.0.0.4:100")
NoAddr == Dest("d", "")

\* entries a configuration file may list under forward.static
StaticEntries == {DA, DB, NoName, NoAddr}
\* the static lists of the configurations the reconciliation is explored from:
\* none, one destination, two destinations, two with malformed entries between
StaticLists == {<<>>, <<DA>>, <<DA, DB>>, <<NoName, DA, NoAddr, DB>>}
\* the destination lists admin requests push
Proposals == {<<DC>>, <<NoName, DC>>, <<DA, NoAddr>>}

SeqsUpTo(S, n) == UNION {[1..k -> S] : k \in 0..n}

\* the Authorization header of a request, and admin.token of the configuration
Token == "secret"
Headers == {Token, "wrong"}

\* what client.Exchange gives back for one probe, main.go:275-282
Outcomes == {"answer", "exchange_error", "no_answer"}

\* payloads of client datagrams
Payloads == {"X", "Y"}

\* ------------------------------------------------------------- state
VARIABLES
    cfg,           \* runner.cfg: static list, admin port, health-check period
    destinations,  \* runner.destinations
    registry,      \* the forwarder's committed destination list
    runPc,         \* position of Run
    runDests,      \* Run's local `destinations`, received from updateDstCh
    updateDstCh,   \* the sends blocked on the unbuffered channel, in arrival order
    reqs,          \* admin requests served so far
    hcPc,          \* position of healthCheck
    hcI,           \* index of the range loop over r.destinations
    healthy,       \* healthCheck's local `healthy`
    hcDests,       \* the destinations healthCheck hands to f.Update
    outcomes,      \* history: per probe of the current tick, whether it passed
    ticks,         \* ticks delivered so far
    cancelled,     \* ctx.Done() is closed
    bindErr,       \* forward.NewForwarder returned an error (main.go:136)
    runErr,        \* the `err` of Run's last forwarder.Update (main.go:170)
    hcErr,         \* the `err` of healthCheck's last f.Update (main.go:250)
    failed,        \* history: the paths on which an Update has returned an error
    accepted,      \* history: admin requests whose handler reached the send
    applied,       \* history: commits made by Run
    dropped,       \* history: the destinations a health-check commit has left out
    txLog,         \* per client datagram, the transmissions of its fan-out
    established,   \* history: the list of the last admin commit (or the static one)
    nsubs,         \* history: proposals submitted so far
    overlap,       \* history: a submission began while another was pending
    lastSub        \* history: the list of the most recently submitted proposal

vars == <<cfg, destinations, registry, runPc, runDests, updateDstCh, reqs,
          hcPc, hcI, healthy, hcDests, outcomes, ticks, cancelled, txLog,
          established, nsubs, overlap, lastSub, bindErr, runErr, hcErr, failed,
          accepted, applied, dropped>>

runVars == <<runPc, runDests>>
hcVars == <<hcPc, hcI, healthy, hcDests, outcomes, ticks>>
subVars == <<nsubs, overlap, lastSub>>
errVars == <<bindErr, runErr, hcErr, failed>>
histVars == <<accepted, applied>>

\* submissions that have not returned yet: the sends blocked on the channel and
\* the health check's call of f.Update
Pending == Len(updateDstCh) + (IF hcPc = "inUpdate" THEN 1 ELSE 0)

\* ------------------------------------------------------------- forwarder
\* forward.WithDestination(name, addr): an option that adds one destination
WithDestination(n, a) == Dest(n, a)

\* the destination list a sequence of options describes: every
\* WithDestination appended in order, nothing validated (spec.md 4.1)
RECURSIVE ApplyOptions(_, _)
ApplyOptions(opts, acc) ==
    IF opts = <<>> THEN acc
    ELSE ApplyOptions(Tail(opts), Append(acc, Head(opts)))

\* forward.NewForwarder(src, opts...): the initial snapshot
NewForwarder(opts) == ApplyOptions(opts, <<>>)

\* forwarder.Update(opts...): the snapshot that wholly replaces the current one
Update(opts) == ApplyOptions(opts, <<>>)

\* the fan-out of one datagram: one transmission per destination of the snapshot
FanOut(p, snapshot) ==
    [i \in 1..Len(snapshot) |-> [to |-> snapshot[i].addr, payload |-> p]]

\* ------------------------------------------------------------- Run: startup
\* main.go:113, the test that skips a static entry
SkipStatic_And(s) == s.name = "" /\ s.addr = ""
SkipStatic(s) == s.name = "" \/ s.addr = ""

\* main.go:111-124, the loop that fills r.destinations from cfg.Forward.Static
RECURSIVE StaticLoop(_, _)
StaticLoop(static, acc) ==
    IF static = <<>> THEN acc
    ELSE IF SkipStatic(Head(static))
         THEN StaticLoop(Tail(static), acc)
         ELSE StaticLoop(Tail(static),
                         Append(acc, Dest(Head(static).name, Head(static).addr)))

\* main.go:126-132, 163-169, 242-249: one WithDestination per entry, in order
Options(dsts) == [i \in 1..Len(dsts) |-> WithDestination(dsts[i].name, dsts[i].addr)]

\* the configurations: admin.port 0 is "no admin API", a healthCheck.period
\* of 0 or less is "no health check"
Configs(lists) == [static : lists, adminPort : {0, 8080}, period : {-1, 0, 1}]

\* the state when Run is called, for a configuration of `configs`
InitWith(configs) ==
    /\ cfg \in configs
    /\ destinations = <<>>
    /\ registry = <<>>
    /\ runPc = "start"
    /\ runDests = <<>>
    /\ updateDstCh = <<>>
    /\ reqs = 0
    /\ hcPc = "off"
    /\ hcI = 1
    /\ healthy = <<>>
    /\ hcDests = <<>>
    /\ outcomes = <<>>
    /\ ticks = 0
    /\ cancelled = FALSE
    /\ txLog = <<>>
    /\ established = <<>>
    /\ nsubs = 0
    /\ overlap = FALSE
    /\ lastSub = <<>>
    /\ bindErr = FALSE
    /\ runErr = "nil"
    /\ hcErr = "nil"
    /\ failed = {}
    /\ accepted = 0
    /\ applied = 0
    /\ dropped = {}

Init == InitWith(Configs(StaticLists))

\* a startup that starts the health check for every period other than zero
RunStartup_PeriodNonZero ==
    /\ runPc = "start"
    /\ destinations' = StaticLoop(cfg.static, destinations)
    /\ registry' = NewForwarder(Options(destinations'))
    /\ established' = destinations'
    /\ hcPc' = IF cfg.period # 0 THEN "select" ELSE "off"
    /\ runPc' = "select"
    /\ UNCHANGED <<dropped, histVars, errVars, cfg, runDests, updateDstCh, reqs, hcI, healthy, hcDests,
                   outcomes, ticks, cancelled, txLog, subVars>>

\* main.go:95-155: Run up to its loop. r.destinations is filled, the forwarder
\* is created from it, the relay and (period > 0) the health check are started.
RunStartup ==
    /\ runPc = "start"
    /\ destinations' = StaticLoop(cfg.static, destinations)
    /\ registry' = NewForwarder(Options(destinations'))
    /\ established' = destinations'
    /\ hcPc' = IF cfg.period > 0 THEN "select" ELSE "off"
    /\ runPc' = "select"
    /\ UNCHANGED <<dropped, histVars, errVars, cfg, runDests, updateDstCh, reqs, hcI, healthy, hcDests,
                   outcomes, ticks, cancelled, txLog, subVars>>

\* a startup that logs the error of NewForwarder and goes on
RunStartupFails_Continues ==
    /\ runPc = "start"
    /\ destinations' = StaticLoop(cfg.static, destinations)
    /\ bindErr' = TRUE
    /\ hcPc' = IF cfg.period > 0 THEN "select" ELSE "off"
    /\ runPc' = "select"
    /\ UNCHANGED <<dropped, histVars, runErr, hcErr, failed, cfg, registry, runDests, updateDstCh,
                   reqs, hcI, healthy, hcDests, outcomes, ticks, cancelled,
                   txLog, established, subVars>>

\* main.go:95-139: forward.NewForwarder returns an error (the inbound socket
\* cannot be bound) and Run panics: no forwarder exists, neither the relay nor
\* the health check is started, the loop is never entered, the process ends.
RunStartupFails ==
    /\ runPc = "start"
    /\ destinations' = StaticLoop(cfg.static, destinations)
    /\ bindErr' = TRUE
    /\ runPc' = "panicked"
    /\ UNCHANGED <<dropped, histVars, runErr, hcErr, failed, cfg, registry, runDests, updateDstCh,
                   reqs, hcVars, cancelled, txLog, established, subVars>>

\* Run has passed startup and the process is alive
Started == runPc \notin {"start", "panicked"}

\* ------------------------------------------------------------- Run: loop
\* main.go:158-159: the select takes `case <-ctx.Done():`, whose body is empty
RunCtxDone ==
    /\ runPc = "select"
    /\ cancelled
    /\ runPc' = "ctxDone"
    /\ UNCHANGED <<dropped, histVars, errVars, cfg, destinations, registry, runDests, updateDstCh, reqs,
                   hcVars, cancelled, txLog, established, subVars>>

\* main.go:157-159: the empty case falls out of the select and the `for`
\* repeats; nothing returns from Run
RunLoop ==
    /\ runPc = "ctxDone"
    /\ runPc' = "select"
    /\ UNCHANGED <<dropped, histVars, errVars, cfg, destinations, registry, runDests, updateDstCh, reqs,
                   hcVars, cancelled, txLog, established, subVars>>

RemoveAt(s, i) == [j \in 1..(Len(s) - 1) |-> IF j < i THEN s[j] ELSE s[j + 1]]

\* a receive that takes one proposal and unblocks the other senders unserved
RunRecv_Drains(i) ==
    /\ runPc = "select"
    /\ i \in 1..Len(updateDstCh)
    /\ runDests' = updateDstCh[i]
    /\ updateDstCh' = <<>>
    /\ runPc' = "inUpdate"
    /\ UNCHANGED <<dropped, histVars, errVars, cfg, destinations, registry, reqs, hcVars,
                   cancelled, txLog, established, subVars>>

\* main.go:160-170: the select receives from updateDstCh (the rendezvous with
\* one blocked handler, whose send returns), the options are built and
\* forwarder.Update is entered
RunRecv(i) ==
    /\ runPc = "select"
    /\ i \in 1..Len(updateDstCh)
    /\ runDests' = updateDstCh[i]
    /\ updateDstCh' = RemoveAt(updateDstCh, i)
    /\ runPc' = "inUpdate"
    /\ UNCHANGED <<dropped, histVars, errVars, cfg, destinations, registry, reqs, hcVars, cancelled, txLog,
                   established, subVars>>

\* a Run that keeps the committed proposal as the runner's own list
RunUpdateReturn_StoresDests ==
    /\ runPc = "inUpdate"
    /\ registry' = Update(Options(runDests))
    /\ established' = registry'
    /\ runErr' = "nil"
    /\ applied' = applied + 1
    /\ destinations' = runDests
    /\ runPc' = "select"
    /\ UNCHANGED <<dropped, accepted, bindErr, hcErr, failed, cfg, runDests,
                   updateDstCh, reqs, hcVars, cancelled, txLog, subVars>>

\* main.go:170-175: forwarder.Update commits and returns, the loop repeats
RunUpdateReturn ==
    /\ runPc = "inUpdate"
    /\ registry' = Update(Options(runDests))
    /\ established' = registry'
    /\ runErr' = "nil"
    /\ applied' = applied + 1
    /\ runPc' = "select"
    /\ UNCHANGED <<dropped, accepted, bindErr, hcErr, failed, cfg, destinations, runDests,
                   updateDstCh, reqs, hcVars, cancelled, txLog, subVars>>

\* a Run that returns the error of forwarder.Update
RunUpdateFails_Returns ==
    /\ runPc = "inUpdate"
    /\ runErr' = "error"
    /\ failed' = failed \cup {"admin"}
    /\ runPc' = "returned"
    /\ UNCHANGED <<dropped, histVars, bindErr, hcErr, cfg, destinations, registry, runDests,
                   updateDstCh, reqs, hcVars, cancelled, txLog, established,
                   subVars>>

\* main.go:170-175: forwarder.Update returns an error, which is logged; the
\* loop repeats. The snapshot is taken to be left as it was.
RunUpdateFails ==
    /\ runPc = "inUpdate"
    /\ runErr' = "error"
    /\ failed' = failed \cup {"admin"}
    /\ runPc' = "select"
    /\ UNCHANGED <<dropped, histVars, bindErr, hcErr, cfg, destinations, registry, runDests,
                   updateDstCh, reqs, hcVars, cancelled, txLog, established,
                   subVars>>

\* ------------------------------------------------------------- serveHTTP
\* a request body: the JSON text of a list of destinations, or text that is none
Garbage == [json |-> "garbage", list |-> <<>>]
Bodies == {[json |-> "list", list |-> l] : l \in Proposals} \cup {Garbage}

\* main.go:195 json.Unmarshal(body, &destinations)
Unmarshal(body) ==
    IF body.json = "list" THEN [err |-> FALSE, val |-> body.list]
    ELSE [err |-> TRUE, val |-> <<>>]

\* a handler that does not reject a body it could not read
Accepted_IgnoresReadErr(hdr, readErr, body) ==
    /\ hdr = Token
    /\ ~Unmarshal(body).err

\* main.go:184-198: whether the handler reaches the send
Accepted(hdr, readErr, body) ==
    /\ hdr = Token
    /\ ~readErr
    /\ ~Unmarshal(body).err

\* main.go:182-201, the handler of one request up to `ch <- destinations`,
\* where it blocks until Run receives
ServeHTTP(hdr, readErr, body) ==
    /\ cfg.adminPort # 0
    /\ Started
    /\ reqs < MaxReq
    /\ reqs' = reqs + 1
    /\ IF Accepted(hdr, readErr, body)
       THEN /\ updateDstCh' = Append(updateDstCh, Unmarshal(body).val)
            /\ accepted' = accepted + 1
            /\ nsubs' = nsubs + 1
            /\ overlap' = (overlap \/ Pending > 0)
            /\ lastSub' = Unmarshal(body).val
       ELSE UNCHANGED <<updateDstCh, accepted, subVars>>
    /\ UNCHANGED <<dropped, applied, errVars, cfg, destinations, registry, runVars, hcVars, cancelled,
                   txLog, established>>

\* ------------------------------------------------------------- healthCheck
\* main.go:259-285 checkDNS: the error it returns for what Exchange gave back
checkDNS(o) ==
    IF o = "exchange_error" THEN "error querying DNS"
    ELSE IF o = "no_answer" THEN "no answer received"
    ELSE "nil"

\* main.go:228-232: the select takes a tick; `healthy` starts nil
HCTick ==
    /\ hcPc = "select"
    /\ ticks < MaxTicks
    /\ ticks' = ticks + 1
    /\ hcPc' = "probe"
    /\ hcI' = 1
    /\ healthy' = <<>>
    /\ outcomes' = <<>>
    /\ UNCHANGED <<dropped, histVars, errVars, cfg, destinations, registry, runVars, updateDstCh, reqs,
                   hcDests, cancelled, txLog, established, subVars>>

\* main.go:234-239: what one probe does to `healthy`
Probed_DropsEarlier(h, d, o) == IF checkDNS(o) # "nil" THEN <<>> ELSE Append(h, d)
Probed_KeepsFailed(h, d, o) == Append(h, d)
Probed(h, d, o) == IF checkDNS(o) # "nil" THEN h ELSE Append(h, d)

\* main.go:233-240: one iteration of the loop over r.destinations
HCProbe(o) ==
    /\ hcPc = "probe"
    /\ hcI <= Len(destinations)
    /\ healthy' = Probed(healthy, destinations[hcI], o)
    /\ outcomes' = Append(outcomes, checkDNS(o) = "nil")
    /\ hcI' = hcI + 1
    /\ UNCHANGED <<dropped, histVars, errVars, cfg, destinations, registry, runVars, updateDstCh, reqs,
                   hcPc, hcDests, ticks, cancelled, txLog, established, subVars>>

\* a health check that goes back to the select when nothing is healthy
HCCallUpdate_SkipEmpty ==
    /\ hcPc = "probe"
    /\ hcI > Len(destinations)
    /\ hcDests' = healthy
    /\ hcPc' = IF healthy = <<>> THEN "select" ELSE "inUpdate"
    /\ nsubs' = IF healthy = <<>> THEN nsubs ELSE nsubs + 1
    /\ overlap' = (overlap \/ (healthy # <<>> /\ Pending > 0))
    /\ lastSub' = IF healthy = <<>> THEN lastSub ELSE healthy
    /\ UNCHANGED <<dropped, histVars, errVars, cfg, destinations, registry, runVars, updateDstCh, reqs,
                   hcI, healthy, outcomes, ticks, cancelled, txLog, established>>

\* a health check that only narrows the current snapshot
HCCallUpdate_Narrows ==
    /\ hcPc = "probe"
    /\ hcI > Len(destinations)
    /\ hcDests' = SelectSeq(healthy, LAMBDA d : \E i \in 1..Len(registry) : registry[i] = d)
    /\ hcPc' = "inUpdate"
    /\ nsubs' = nsubs + 1
    /\ overlap' = (overlap \/ Pending > 0)
    /\ lastSub' = hcDests'
    /\ UNCHANGED <<dropped, histVars, errVars, cfg, destinations, registry, runVars,
                   updateDstCh, reqs, hcI, healthy, outcomes, ticks, cancelled,
                   txLog, established>>

\* main.go:242-250: the loop is over, the options are built from `healthy`
\* (also when it is empty) and f.Update is entered
HCCallUpdate ==
    /\ hcPc = "probe"
    /\ hcI > Len(destinations)
    /\ hcDests' = healthy
    /\ hcPc' = "inUpdate"
    /\ nsubs' = nsubs + 1
    /\ overlap' = (overlap \/ Pending > 0)
    /\ lastSub' = healthy
    /\ UNCHANGED <<dropped, histVars, errVars, cfg, destinations, registry, runVars, updateDstCh, reqs,
                   hcI, healthy, outcomes, ticks, cancelled, txLog, established>>

\* main.go:250-255: f.Update commits and returns, the loop repeats
HCUpdateReturn ==
    /\ hcPc = "inUpdate"
    /\ registry' = Update(Options(hcDests))
    /\ hcErr' = "nil"
    /\ dropped' = dropped \cup ({destinations[i] : i \in 1..Len(destinations)}
                                  \ {hcDests[i] : i \in 1..Len(hcDests)})
    /\ hcPc' = "select"
    /\ UNCHANGED <<histVars, bindErr, runErr, failed, cfg, destinations, runVars,
                   updateDstCh, reqs, hcI, healthy, hcDests, outcomes, ticks,
                   cancelled, txLog, established, subVars>>

\* main.go:250-252: f.Update returns an error, which is logged; the loop
\* repeats. The snapshot is taken to be left as it was.
HCUpdateFails ==
    /\ hcPc = "inUpdate"
    /\ hcErr' = "error"
    /\ failed' = failed \cup {"healthcheck"}
    /\ hcPc' = "select"
    /\ UNCHANGED <<dropped, histVars, bindErr, runErr, cfg, destinations, registry, runVars,
                   updateDstCh, reqs, hcI, healthy, hcDests, outcomes, ticks,
                   cancelled, txLog, established, subVars>>

\* main.go:229-230: the select takes `case <-ctx.Done():` and returns
HCReturn ==
    /\ hcPc = "select"
    /\ cancelled
    /\ hcPc' = "returned"
    /\ UNCHANGED <<dropped, histVars, errVars, cfg, destinations, registry, runVars, updateDstCh, reqs,
                   hcI, healthy, hcDests, outcomes, ticks, cancelled, txLog,
                   established, subVars>>

\* ------------------------------------------------------------- environment
\* the caller of Run cancels ctx
Cancel ==
    /\ Started
    /\ ~cancelled
    /\ cancelled' = TRUE
    /\ UNCHANGED <<dropped, histVars, errVars, cfg, destinations, registry, runVars, updateDstCh, reqs,
                   hcVars, txLog, established, subVars>>

\* the relay (forwarder.Start, main.go:145) receives a client datagram and
\* replicates it to every destination of the current snapshot
Packet(p) ==
    /\ Started
    /\ ~cancelled
    /\ Len(txLog) < MaxPackets
    /\ txLog' = Append(txLog, FanOut(p, registry))
    /\ UNCHANGED <<dropped, histVars, errVars, cfg, destinations, registry, runVars, updateDstCh, reqs,
                   hcVars, cancelled, established, subVars>>

\* ------------------------------------------------------------- specification
RunProc ==
    RunStartup \/ RunStartupFails \/ RunCtxDone \/ RunLoop \/ (\E i \in 1..MaxReq : RunRecv(i))
        \/ RunUpdateReturn

HCProc ==
    HCTick \/ (\E o \in Outcomes : HCProbe(o)) \/ HCCallUpdate
        \/ HCUpdateReturn \/ HCReturn

Next ==
    \/ RunStartup
    \/ RunStartupFails
    \/ RunCtxDone
    \/ RunLoop
    \/ \E i \in 1..MaxReq : RunRecv(i)
    \/ RunUpdateReturn
    \/ \E hdr \in Headers, readErr \in BOOLEAN, body \in Bodies :
          ServeHTTP(hdr, readErr, body)
    \/ HCTick
    \/ \E o \in Outcomes : HCProbe(o)
    \/ HCCallUpdate
    \/ HCUpdateReturn
    \/ HCReturn
    \/ Cancel

\* the reconciliation: Run, the admin handlers and the health check
Spec == Init /\ [][Next]_vars

\* The Go scheduler runs every runnable goroutine, and a select with several
\* ready cases picks among them at random, so a case that stays or keeps
\* becoming ready is taken in the end.
FairSpec ==
    /\ Spec
    /\ WF_vars(RunProc)
    /\ WF_vars(HCProc)
    /\ SF_vars(HCReturn)

\* The admin path with one static destination, the health check on or off.
\* A receive that keeps becoming ready is taken in the end, also while
\* ctx.Done() is ready too: the select picks among its ready cases at random.
AdminInit == InitWith([static : {<<DA>>}, adminPort : {8080}, period : {0, 1}])

FairAdminSpec ==
    /\ AdminInit /\ [][Next]_vars
    /\ WF_vars(RunProc)
    /\ WF_vars(HCProc)
    /\ SF_vars(HCReturn)
    /\ SF_vars(\E i \in 1..MaxReq : RunRecv(i))

\* The reconciliation when forwarder.Update may return an error, with the
\* admin API and the health check both on.
ErrInit == InitWith([static : {<<DA>>, <<DA, DB>>}, adminPort : {8080}, period : {1}])

ErrNext ==
    \/ Next
    \/ RunUpdateFails
    \/ HCUpdateFails

ErrSpec == ErrInit /\ [][ErrNext]_vars

\* Startup alone, from every static list of at most MaxStatic entries.
StartupInit == InitWith(Configs(SeqsUpTo(StaticEntries, MaxStatic)))

StartupNext == RunStartup

StartupSpec == StartupInit /\ [][StartupNext]_vars

\* The relay under health checks alone (no admin API), as in the end-to-end
\* scenario of spec.md section 8.
RelayInit == InitWith([static : StaticLists, adminPort : {0}, period : {1}])

RelayNext ==
    \/ RunStartup
    \/ RunCtxDone
    \/ RunLoop
    \/ HCTick
    \/ \E o \in Outcomes : HCProbe(o)
    \/ HCCallUpdate
    \/ HCUpdateReturn
    \/ HCReturn
    \/ Cancel
    \/ \E p \in Payloads : Packet(p)

RelaySpec == RelayInit /\ [][RelayNext]_vars

\* ------------------------------------------------------------- claims
Range(s) == {s[i] : i \in 1..Len(s)}

\* an entry with a name and an address
WellFormed(d) == d.name # "" /\ d.addr # ""

\* no submission is pending and no commit is under way
Quiescent ==
    /\ runPc \in {"select", "ctxDone"}
    /\ hcPc \in {"off", "select", "returned"}
    /\ updateDstCh = <<>>

\* every probe of the current tick failed
AllFailed == \A i \in 1..Len(outcomes) : ~outcomes[i]

\* h is d with exactly the entries kept whose flag in ok is TRUE, in order
IsSelection(h, d, ok) ==
    \E f \in [1..Len(h) -> 1..Len(d)] :
        /\ \A j, k \in 1..Len(h) : j < k => f[j] < f[k]
        /\ {f[j] : j \in 1..Len(h)} = {i \in 1..Len(d) : ok[i]}
        /\ \A j \in 1..Len(h) : h[j] = d[f[j]]

\* C1: at most one call of forwarder.Update is in flight at any moment: the
\* commit of Run and the commit of healthCheck never execute at the same time.
C1_SingleWriter == ~(runPc = "inUpdate" /\ hcPc = "inUpdate")

\* C2: when exactly two proposals were submitted, the second only after the
\* submission of the first had returned, then once everything has settled the
\* registry holds exactly the destinations of the second.
C2_ProposalOrdering ==
    (nsubs = 2 /\ ~overlap /\ Quiescent) => registry = lastSub

\* C3: on every health-check tick the destinations probed (the list the loop
\* ranges over) are exactly the registry's committed snapshot at that tick.
C3_ProbesCurrentSnapshot ==
    [][(hcPc = "select" /\ hcPc' = "probe") => destinations = registry]_vars

\* C4: every destination list the health check commits is a subset of the list
\* established by the most recent admin commit (the static list if none).
C4_HealthCheckNarrows ==
    [][(hcPc = "inUpdate" /\ hcPc' = "select")
          => Range(registry') \subseteq Range(established)]_vars

\* C5: a tick on which every probe failed still calls f.Update, with an empty
\* destination list, and that commit leaves the registry empty.
C5_AllFailedCommitsEmpty ==
    [][/\ (hcPc = "probe" /\ hcPc' # "probe" /\ AllFailed)
            => (hcPc' = "inUpdate" /\ hcDests' = <<>>)
       /\ (hcPc = "inUpdate" /\ hcPc' # "inUpdate" /\ AllFailed)
            => registry' = <<>>]_vars

C5_Witness ==
    /\ cfg.adminPort = 0
    /\ destinations = <<DA, DB>>
    /\ hcPc = "select"
    /\ outcomes = <<FALSE, FALSE>>
    /\ registry = <<>>

\* C6: the proposal of a tick is exactly the probed destinations whose probe
\* passed, in probe order and unchanged; while the tick is probing, `healthy`
\* is that selection of the destinations probed so far.
C6_HealthyIsSelection ==
    /\ Len(outcomes) <= Len(destinations)
    /\ IsSelection(healthy, SubSeq(destinations, 1, Len(outcomes)), outcomes)
    /\ hcPc = "inUpdate" =>
          /\ Len(outcomes) = Len(destinations)
          /\ hcDests = healthy

C6_Witness ==
    /\ hcPc = "inUpdate"
    /\ destinations = <<DA, DB>>
    /\ outcomes = <<FALSE, TRUE>>
    /\ hcDests = <<DB>>

\* C7: an admin commit leaves in the registry exactly the well-formed entries
\* of the proposal; entries with an empty name or address are skipped.
C7_MalformedSkipped ==
    [][(runPc = "inUpdate" /\ runPc' = "select")
          => registry' = SelectSeq(runDests, WellFormed)]_vars

\* C8: after startup the registry is the static list with every entry removed
\* that has an empty name or an empty address, the rest in configuration order.
C8_InitialRegistry ==
    runPc # "start" =>
        /\ registry = SelectSeq(cfg.static, WellFormed)
        /\ destinations = registry

C8_Witness ==
    /\ runPc = "select"
    /\ cfg.static = <<NoName, DA>>
    /\ registry = <<DA>>

\* C9: from static destinations [a, b] and no admin push, a datagram received
\* before any tick is sent to a and to b; a tick on which a passes and b fails
\* leaves the registry [a]; a datagram received after it is sent to a only.
C9_EndToEnd ==
    [][cfg.static = <<DA, DB>> =>
        /\ (hcPc = "inUpdate" /\ hcPc' = "select" /\ outcomes = <<TRUE, FALSE>>)
              => registry' = <<DA>>
        /\ (Len(txLog') = Len(txLog) + 1) =>
              LET fan == txLog'[Len(txLog')] IN
              /\ ticks = 0 =>
                    \E p \in Payloads :
                        fan = <<[to |-> DA.addr, payload |-> p],
                                [to |-> DB.addr, payload |-> p]>>
              /\ (hcPc = "select" /\ ticks > 0 /\ outcomes = <<TRUE, FALSE>>) =>
                    \E p \in Payloads : fan = <<[to |-> DA.addr, payload |-> p]>>
      ]_vars

C9_Witness ==
    /\ cfg.static = <<DA, DB>>
    /\ registry = <<DA>>
    /\ txLog = << <<[to |-> DA.addr, payload |-> "X"],
                   [to |-> DB.addr, payload |-> "X"]>>,
                 <<[to |-> DA.addr, payload |-> "Y"]>> >>

\* C10: once ctx is cancelled, the health check eventually returns and Run
\* eventually returns (which is when the deferred forwarder.Close runs and
\* after which Run commits nothing).
C10_CancellationStops ==
    cancelled ~> (hcPc \in {"off", "returned"} /\ runPc = "returned")

\* C11: no error stops the reconciliation. A failed probe leaves healthCheck in
\* its probe loop and Run where it is; a forwarder.Update that returns, with or
\* without an error, takes its caller back to the select of its loop, where the
\* next tick and the next admin proposal are taken.
C11_ErrorsDoNotStopLoops ==
    [][/\ (runPc = "inUpdate" /\ runPc' # "inUpdate") => runPc' = "select"
       /\ (hcPc = "inUpdate" /\ hcPc' # "inUpdate") => hcPc' = "select"
       /\ (Len(outcomes') = Len(outcomes) + 1 /\ ~outcomes'[Len(outcomes')])
            => (hcPc' = "probe" /\ runPc' = runPc)
       /\ (runPc \in {"select", "ctxDone", "inUpdate"})
            => (runPc' \in {"select", "ctxDone", "inUpdate"})
       /\ (hcPc' = "returned" => cancelled)]_vars

\* both paths have had an Update error, and after it each has committed again
C11_Witness ==
    /\ failed = {"admin", "healthcheck"}
    /\ runErr = "nil"
    /\ hcErr = "nil"
    /\ ticks = 2
    /\ registry = <<DC>>
    /\ established = <<DC>>

\* C12: when NewForwarder fails, Run stops at the panic: there is no forwarder
\* and no snapshot, the relay and the health check are never started, no tick
\* runs and no admin proposal is received or committed.
C12_BindFailureIsFatal ==
    bindErr =>
        /\ runPc = "panicked"
        /\ hcPc = "off"
        /\ ticks = 0
        /\ registry = <<>>
        /\ runDests = <<>>
        /\ txLog = <<>>

C12_Witness ==
    /\ bindErr
    /\ runPc = "panicked"
    /\ cfg.static = <<DA, DB>>
    /\ cfg.adminPort # 0
    /\ cfg.period > 0
    /\ destinations = <<DA, DB>>

\* the lists of s as a bag: how often each occurs
Count(s, x) == Cardinality({i \in 1..Len(s) : s[i] = x})

\* C14: every accepted admin proposal is applied by exactly one commit of Run.
\* A receive takes exactly one blocked proposal off the channel, the commit that
\* follows it (before any other receive) commits that proposal, so the commits
\* so far are the proposals received so far, one each and in that order; and
\* every accepted proposal is received and committed in the end.
C14_AcceptedAppliedOnce ==
    /\ [](applied = accepted - Len(updateDstCh)
                      - (IF runPc = "inUpdate" THEN 1 ELSE 0))
    /\ [][/\ (runPc = "select" /\ runPc' = "inUpdate") =>
                /\ Len(updateDstCh') = Len(updateDstCh) - 1
                /\ \A x \in Proposals :
                      Count(updateDstCh, x) =
                          Count(updateDstCh', x) + (IF runDests' = x THEN 1 ELSE 0)
          /\ (runPc = "inUpdate" /\ runPc' = "select") =>
                /\ applied' = applied + 1
                /\ registry' = runDests
          /\ applied' # applied => (runPc = "inUpdate" /\ runPc' = "select")
          /\ (Len(updateDstCh') < Len(updateDstCh)) =>
                (runPc = "select" /\ runPc' = "inUpdate")]_vars
    /\ []<>(applied = accepted)

\* two proposals were accepted while ctx was already cancelled, and both are
\* committed, the second last
C14_Witness ==
    /\ cancelled
    /\ accepted = 2
    /\ applied = 2
    /\ updateDstCh = <<>>
    /\ runPc = "select"
    /\ registry = <<DA, NoAddr>>

\* C15: a health-check commit puts every destination of r.destinations whose
\* probe passed on this tick into the registry, also one that an earlier
\* health-check commit had dropped; it stays there until the next commit.
C15_PassedIsBack ==
    [][(hcPc = "inUpdate" /\ hcPc' = "select") =>
          \A i \in 1..Len(destinations) :
              outcomes[i] => destinations[i] \in Range(registry')]_vars

\* b was dropped by the first tick's commit, an admin proposal was committed,
\* and the second tick, on which b passed, has put b back
C15_Witness ==
    /\ destinations = <<DA, DB>>
    /\ DB \in dropped
    /\ applied > 0
    /\ ticks = 2
    /\ hcPc = "select"
    /\ outcomes = <<TRUE, TRUE>>
    /\ registry = <<DA, DB>>

\* C16: runner.destinations is written during startup only: once Run is past
\* startup no step (admin request, receive, commit, tick, probe, cancel)
\* changes it, and it is the filtered static list throughout.
C16_DestinationsFixedAfterStartup ==
    /\ [][runPc # "start" => destinations' = destinations]_vars
    /\ [](runPc # "start" => destinations = StaticLoop(cfg.static, <<>>))

\* an admin proposal and a narrowing tick have both been committed and
\* runner.destinations is still the static list
C16_Witness ==
    /\ destinations = <<DA, DB>>
    /\ established = <<DC>>
    /\ applied > 0
    /\ DB \in dropped
    /\ registry = <<DA>>

\* C17: a request whose Authorization header is not the configured token, whose
\* body cannot be read, or whose body is not the JSON of a list, hands nothing
\* to the channel: the step that serves it leaves the blocked sends, the count
\* of accepted proposals, Run's position and the registry as they were.
C17_RejectedRequest ==
    \E hdr \in Headers, readErr \in BOOLEAN, body \in Bodies :
        /\ (hdr # Token \/ readErr \/ body.json # "list")
        /\ ServeHTTP(hdr, readErr, body)

C17_RejectedProducesNothing ==
    /\ [][C17_RejectedRequest =>
            /\ updateDstCh' = updateDstCh
            /\ accepted' = accepted
            /\ nsubs' = nsubs
            /\ runPc' = runPc
            /\ runDests' = runDests
            /\ registry' = registry]_vars
    /\ [](reqs >= accepted /\ accepted = Len(updateDstCh) + applied
                                         + (IF runPc = "inUpdate" THEN 1 ELSE 0))

\* every request served was rejected: nothing was handed over or committed
C17_Witness ==
    /\ cfg.adminPort # 0
    /\ cfg.period = 0
    /\ reqs = MaxReq
    /\ accepted = 0
    /\ updateDstCh = <<>>
    /\ nsubs = 0
    /\ registry = destinations
    /\ destinations = <<DA, DB>>

\* C18: with a period that is not positive the health check is never started:
\* no tick, no health-check commit, the registry changes only when Run commits
\* an admin proposal and always holds the latest such commit, or the static
\* list before the first. With admin port 0 there is no admin intake: no
\* request, nothing on the channel, no commit by Run, and past startup the
\* registry changes only when the health check commits.
C18_DisabledParts ==
    /\ [](cfg.period <= 0 =>
            /\ hcPc = "off"
            /\ ticks = 0
            /\ dropped = {}
            /\ (Started => registry = established))
    /\ [](cfg.adminPort = 0 =>
            /\ reqs = 0
            /\ accepted = 0
            /\ updateDstCh = <<>>
            /\ applied = 0
            /\ runPc # "inUpdate")
    /\ [][(cfg.period <= 0 /\ Started /\ registry' # registry) =>
            (runPc = "inUpdate" /\ runPc' = "select" /\ registry' = runDests)]_vars
    /\ [][(cfg.adminPort = 0 /\ Started /\ registry' # registry) =>
            (hcPc = "inUpdate" /\ hcPc' = "select" /\ registry' = hcDests)]_vars

\* a negative period: two admin proposals committed, the registry holds the
\* second, and the health check has never run
C18_Witness ==
    /\ cfg.period < 0
    /\ cfg.adminPort # 0
    /\ destinations = <<DA, DB>>
    /\ applied = 2
    /\ registry = <<DA, NoAddr>>
    /\ hcPc = "off"

====
